---- MODULE Spec2Model ----
(***************************************************************************)
(* Model of the JSON tokenizer of json2rust (src/src/tokenizer.rs).        *)
(*                                                                         *)
(* tokenize_json is a single forward pass over json.chars().enumerate().   *)
(* One action models one iteration of the for loop in one arm of           *)
(* `match state`, and one action models the code after the loop.           *)
(* A character is modelled as a one-character string; a Rust String as a   *)
(* sequence of characters.  The non-ASCII characters for which             *)
(* char::is_numeric() is true are written by their code point.             *)
(***************************************************************************)
EXTENDS Naturals, Sequences, FiniteSets, TLC

\* Longest input that is scanned.
MaxLen == 4

(***************************************************************************)
(* Characters                                                              *)
(***************************************************************************)
AsciiDigits == {"0", "1", "2", "3", "4", "5", "6", "7", "8", "9"}

\* Characters outside ASCII of Unicode category Nd, Nl or No:
\* SUPERSCRIPT TWO, VULGAR FRACTION ONE HALF, ARABIC-INDIC DIGIT THREE.
OtherNumeric == {"U+00B2", "U+00BD", "U+0663"}

\* is_numeric testing for the digits 1-9 only.
is_numeric_OneToNine(c) == c \in {"1", "2", "3", "4", "5", "6", "7", "8", "9"}

\* char::is_numeric(): true for the general categories Nd, Nl and No.
is_numeric(c) == c \in AsciiDigits \cup OtherNumeric

\* The characters inputs are made of: every character the tokenizer names,
\* one non-zero digit, one non-ASCII numeric character, one letter and one
\* whitespace character other than the space.
Alphabet ==
    {"{", "}", "[", "]", ":", ",", "\"", "\\", " ",
     "0", "5", ".", "e", "E", "U+00B2", "a", "\n"}

(***************************************************************************)
(* Data types                                                              *)
(***************************************************************************)
\* JsonTokenInfo::new
JsonTokenInfo_new(line, column, char) ==
    [line |-> line, column |-> column, char |-> char]

\* JsonToken::new
JsonToken_new(token_type, location) ==
    [location |-> location, token_type |-> token_type]

\* enum JsonTokenType
ObjectStart == [tag |-> "ObjectStart"]
ObjectEnd   == [tag |-> "ObjectEnd"]
ArrayStart  == [tag |-> "ArrayStart"]
ArrayEnd    == [tag |-> "ArrayEnd"]
String(v)   == [tag |-> "String", value |-> v]
Float       == [tag |-> "Float"]
Int         == [tag |-> "Int"]
Bool        == [tag |-> "Bool"]
Colon       == [tag |-> "Colon"]

\* enum TokenizerState
Ready == [tag |-> "Ready"]

ReadingString(starting_location, value, escape_next) ==
    [tag |-> "ReadingString", starting_location |-> starting_location,
     value |-> value, escape_next |-> escape_next]

ReadingNumber(starting_location, seen_decimal_char, seen_exponent) ==
    [tag |-> "ReadingNumber", starting_location |-> starting_location,
     seen_decimal_char |-> seen_decimal_char, seen_exponent |-> seen_exponent]

\* TokenizerNumberReadingState::new
TokenizerNumberReadingState_new(starting_location) ==
    ReadingNumber(starting_location, FALSE, FALSE)

\* enum Error
MultipleDecimalSeparators(l)  == [tag |-> "MultipleDecimalSeparators", location |-> l]
DecimalAfterExponent(l)       == [tag |-> "DecimalAfterExponent", location |-> l]
InvalidNumberCharacter(l, c)  == [tag |-> "InvalidNumberCharacter", location |-> l, char |-> c]
MultipleExponentCharacters(l) == [tag |-> "MultipleExponentCharacters", location |-> l]
UnknownJsonCharacter(l, c)    == [tag |-> "UnknownJsonCharacter", location |-> l, char |-> c]
UnclosedString(l)             == [tag |-> "UnclosedString", location |-> l]
NumbersCannotStartWithZero(l) == [tag |-> "NumbersCannotStartWithZero", location |-> l]
InvalidJson(l, m)             == [tag |-> "InvalidJson", location |-> l, message |-> m]

\* Result<Vec<JsonToken>, Error>, and the value of `result` while the
\* function has not returned.
NotReturned == [tag |-> "None"]
Ok(toks)    == [tag |-> "Ok", tokens |-> toks]
Err(e)      == [tag |-> "Err", error |-> e]

(***************************************************************************)
(* State of one call of tokenize_json                                      *)
(***************************************************************************)
VARIABLES
    json,           \* the argument
    char_index,     \* number of characters taken from json.chars()
    tokens,         \* let mut tokens
    state,          \* let mut state
    line_number,    \* let mut line_number
    column_number,  \* let mut column_number
    result          \* the returned value

vars == <<json, char_index, tokens, state, line_number, column_number, result>>

Init ==
    /\ \E n \in 0..MaxLen : json \in [1..n -> Alphabet]
    /\ char_index = 0
    /\ tokens = <<>>
    /\ state = Ready
    /\ line_number = 1
    /\ column_number = 1
    /\ result = NotReturned

(***************************************************************************)
(* Helpers of the loop                                                     *)
(***************************************************************************)
\* The for loop has a next (char_index, current_char) and no return was taken.
InLoop == result.tag = "None" /\ char_index < Len(json)

current_char == json[char_index + 1]

\* StructuralTokenType with the two closing brackets exchanged.
StructuralTokenType_SwappedEnds(c) ==
    IF c = "{" THEN ObjectStart
    ELSE IF c = "}" THEN ArrayEnd
    ELSE IF c = "[" THEN ArrayStart
    ELSE IF c = "]" THEN ObjectEnd
    ELSE Colon

\* The arms '{' '}' '[' ']' ':' of the Ready match.
StructuralTokenType(c) ==
    IF c = "{" THEN ObjectStart
    ELSE IF c = "}" THEN ObjectEnd
    ELSE IF c = "[" THEN ArrayStart
    ELSE IF c = "]" THEN ArrayEnd
    ELSE Colon

\* format with its two arguments exchanged.
format_Swapped(value, c) == <<c>> \o value

\* format!("{}{}", s.value, current_char)
format(value, c) == Append(value, c)

\* column_number += 1 at the end of the loop body
NextColumn(column) == column + 1

\* ReturnErr with the fault recorded and the loop moving on to the next
\* character instead of returning.
ReturnErr_KeepScanning(e) ==
    /\ result' = Err(e)
    /\ char_index' = char_index + 1
    /\ UNCHANGED <<json, tokens, state, line_number, column_number>>

\* return Err(e): the function returns, every local is left behind.
ReturnErr(e) ==
    /\ result' = Err(e)
    /\ UNCHANGED <<json, char_index, tokens, state, line_number, column_number>>

\* EndOfBody counting a line for every newline character it passes.
EndOfBody_CountsLines ==
    /\ column_number' = NextColumn(column_number)
    /\ char_index' = char_index + 1
    /\ line_number' = IF current_char = "\n" THEN line_number + 1 ELSE line_number
    /\ UNCHANGED <<json, result>>

\* The loop body ran to its end: column_number += 1, next character.
EndOfBody ==
    /\ column_number' = NextColumn(column_number)
    /\ char_index' = char_index + 1
    /\ UNCHANGED <<json, line_number, result>>

\* Continue with the column counted for the escaped character.
Continue_CountsColumn ==
    /\ char_index' = char_index + 1
    /\ column_number' = NextColumn(column_number)
    /\ UNCHANGED <<json, line_number, result>>

\* Continue staying on the same character.
Continue_NoAdvance ==
    UNCHANGED <<json, char_index, line_number, column_number, result>>

\* `continue`: next character without reaching the end of the body.
Continue ==
    /\ char_index' = char_index + 1
    /\ UNCHANGED <<json, line_number, column_number, result>>

\* add_number_to_tokens inserting the number token at the front of the list.
add_number_to_tokens_AtFront(toks, s) ==
    IF s.seen_decimal_char
    THEN <<JsonToken_new(Float, s.starting_location)>> \o toks
    ELSE <<JsonToken_new(Int, s.starting_location)>> \o toks

\* add_number_to_tokens pushing Int whatever the flags are.
add_number_to_tokens_IntOnly(toks, s) ==
    Append(toks, JsonToken_new(Int, s.starting_location))

\* add_number_to_tokens taking an exponent marker for a decimal point too.
add_number_to_tokens_ExponentIsFloat(toks, s) ==
    IF s.seen_decimal_char \/ s.seen_exponent
    THEN Append(toks, JsonToken_new(Float, s.starting_location))
    ELSE Append(toks, JsonToken_new(Int, s.starting_location))

\* fn add_number_to_tokens: the token list after the push.
add_number_to_tokens(toks, s) ==
    IF s.seen_decimal_char
    THEN Append(toks, JsonToken_new(Float, s.starting_location))
    ELSE Append(toks, JsonToken_new(Int, s.starting_location))

\* end_current_token reporting an unclosed string as the parser's InvalidJson.
end_current_token_InvalidJson(toks, st) ==
    IF st.tag = "ReadingString"
    THEN [tag |-> "Err",
          error |-> InvalidJson(st.starting_location, <<"unclosed string">>),
          tokens |-> toks]
    ELSE IF st.tag = "ReadingNumber"
    THEN [tag |-> "Ok", state |-> Ready,
          tokens |-> add_number_to_tokens(toks, st)]
    ELSE [tag |-> "Ok", state |-> Ready, tokens |-> toks]

\* end_current_token reporting an unclosed string at the origin instead of
\* at the string's starting location.
end_current_token_LostLocation(toks, st) ==
    IF st.tag = "ReadingString"
    THEN [tag |-> "Err", error |-> UnclosedString(JsonTokenInfo_new(0, 0, 0)),
          tokens |-> toks]
    ELSE IF st.tag = "ReadingNumber"
    THEN [tag |-> "Ok", state |-> Ready,
          tokens |-> add_number_to_tokens(toks, st)]
    ELSE [tag |-> "Ok", state |-> Ready, tokens |-> toks]

\* end_current_token without the call of add_number_to_tokens.
end_current_token_NoPush(toks, st) ==
    IF st.tag = "ReadingString"
    THEN [tag |-> "Err", error |-> UnclosedString(st.starting_location),
          tokens |-> toks]
    ELSE [tag |-> "Ok", state |-> Ready, tokens |-> toks]

\* fn end_current_token: the Result it returns, with the token list it leaves.
end_current_token(toks, st) ==
    IF st.tag = "ReadingString"
    THEN [tag |-> "Err", error |-> UnclosedString(st.starting_location),
          tokens |-> toks]
    ELSE IF st.tag = "ReadingNumber"
    THEN [tag |-> "Ok", state |-> Ready,
          tokens |-> add_number_to_tokens(toks, st)]
    ELSE [tag |-> "Ok", state |-> Ready, tokens |-> toks]

(***************************************************************************)
(* The loop body, one action per arm of `match state`                      *)
(***************************************************************************)
\* StepReady skipping newline, tab and carriage return as it skips the space.
StepReady_SkipsAllWhitespace ==
    /\ InLoop
    /\ state.tag = "Ready"
    /\ LET location == JsonTokenInfo_new(line_number, column_number, char_index)
           c == current_char
       IN  IF c \in {"{", "}", "[", "]", ":"}
           THEN /\ tokens' = Append(tokens,
                                JsonToken_new(StructuralTokenType(c), location))
                /\ UNCHANGED state
                /\ EndOfBody
           ELSE IF c = ","
           THEN UNCHANGED <<tokens, state>> /\ EndOfBody
           ELSE IF c = "\""
           THEN /\ state' = ReadingString(location, <<>>, FALSE)
                /\ UNCHANGED tokens
                /\ EndOfBody
           ELSE IF is_numeric(c)
           THEN IF c = "0"
                THEN ReturnErr(NumbersCannotStartWithZero(location))
                ELSE /\ state' = TokenizerNumberReadingState_new(location)
                     /\ UNCHANGED tokens
                     /\ EndOfBody
           ELSE IF c \in {" ", "\t", "\n", "\r"}
           THEN UNCHANGED <<tokens, state>> /\ EndOfBody
           ELSE ReturnErr(UnknownJsonCharacter(location, c))

\* TokenizerState::Ready => { ... }
StepReady ==
    /\ InLoop
    /\ state.tag = "Ready"
    /\ LET location == JsonTokenInfo_new(line_number, column_number, char_index)
           c == current_char
       IN  IF c \in {"{", "}", "[", "]", ":"}
           THEN /\ tokens' = Append(tokens,
                                JsonToken_new(StructuralTokenType(c), location))
                /\ UNCHANGED state
                /\ EndOfBody
           ELSE IF c = ","
           THEN UNCHANGED <<tokens, state>> /\ EndOfBody
           ELSE IF c = "\""
           THEN /\ state' = ReadingString(location, <<>>, FALSE)
                /\ UNCHANGED tokens
                /\ EndOfBody
           ELSE IF is_numeric(c)
           THEN IF c = "0"
                THEN ReturnErr(NumbersCannotStartWithZero(location))
                ELSE /\ state' = TokenizerNumberReadingState_new(location)
                     /\ UNCHANGED tokens
                     /\ EndOfBody
           ELSE IF c = " "
           THEN UNCHANGED <<tokens, state>> /\ EndOfBody
           ELSE ReturnErr(UnknownJsonCharacter(location, c))

\* StepEscapedChar leaving the flag set when the escaped character is a
\* backslash.
StepEscapedChar_BackslashReescapes ==
    /\ InLoop
    /\ state.tag = "ReadingString"
    /\ state.escape_next
    /\ state' = ReadingString(state.starting_location,
                              format(state.value, current_char),
                              current_char = "\\")
    /\ UNCHANGED tokens
    /\ Continue

\* TokenizerState::ReadingString(ref s) with s.escape_next set
StepEscapedChar ==
    /\ InLoop
    /\ state.tag = "ReadingString"
    /\ state.escape_next
    /\ state' = ReadingString(state.starting_location,
                              format(state.value, current_char), FALSE)
    /\ UNCHANGED tokens
    /\ Continue

\* TokenizerState::ReadingString(ref s), the match on current_char
StepReadingString ==
    /\ InLoop
    /\ state.tag = "ReadingString"
    /\ ~state.escape_next
    /\ LET s == state
           c == current_char
       IN  IF c = "\""
           THEN /\ tokens' = Append(tokens,
                                JsonToken_new(String(s.value), s.starting_location))
                /\ state' = Ready
           ELSE IF c = "\\"
           THEN /\ state' = ReadingString(s.starting_location, s.value, TRUE)
                /\ UNCHANGED tokens
           ELSE /\ state' = ReadingString(s.starting_location,
                                          format(s.value, c), s.escape_next)
                /\ UNCHANGED tokens
    /\ EndOfBody

\* StepReadingNumber building a fresh number state on an exponent marker, so
\* that a decimal point seen before it is forgotten.
StepReadingNumber_ExponentResetsDecimal ==
    /\ InLoop
    /\ state.tag = "ReadingNumber"
    /\ LET s == state
           c == current_char
       IN  IF c = "." /\ s.seen_decimal_char
           THEN ReturnErr(MultipleDecimalSeparators(s.starting_location))
           ELSE IF c = "." /\ s.seen_exponent
           THEN ReturnErr(DecimalAfterExponent(s.starting_location))
           ELSE IF c = "."
           THEN /\ state' = ReadingNumber(s.starting_location, TRUE, s.seen_exponent)
                /\ UNCHANGED tokens
                /\ EndOfBody
           ELSE IF c \in {"e", "E"} /\ s.seen_exponent
           THEN ReturnErr(MultipleExponentCharacters(s.starting_location))
           ELSE IF c \in {"e", "E"}
           THEN /\ state' = ReadingNumber(s.starting_location, FALSE, TRUE)
                /\ UNCHANGED tokens
                /\ EndOfBody
           ELSE IF is_numeric(c)
           THEN UNCHANGED <<tokens, state>> /\ EndOfBody
           ELSE IF c \in {",", "]", "}"}
           THEN LET r == end_current_token(tokens, state)
                IN  IF r.tag = "Err"
                    THEN ReturnErr(r.error)
                    ELSE /\ state' = r.state
                         /\ tokens' =
                              IF c = "]"
                              THEN Append(r.tokens, JsonToken_new(ArrayEnd,
                                     JsonTokenInfo_new(line_number, column_number, char_index)))
                              ELSE IF c = "}"
                              THEN Append(r.tokens, JsonToken_new(ObjectEnd,
                                     JsonTokenInfo_new(line_number, column_number, char_index)))
                              ELSE r.tokens
                         /\ EndOfBody
           ELSE ReturnErr(InvalidNumberCharacter(s.starting_location, c))

\* StepReadingNumber with the two guarded '.' arms in the other order.
StepReadingNumber_ExponentArmFirst ==
    /\ InLoop
    /\ state.tag = "ReadingNumber"
    /\ LET s == state
           c == current_char
       IN  IF c = "." /\ s.seen_exponent
           THEN ReturnErr(DecimalAfterExponent(s.starting_location))
           ELSE IF c = "." /\ s.seen_decimal_char
           THEN ReturnErr(MultipleDecimalSeparators(s.starting_location))
           ELSE IF c = "."
           THEN /\ state' = ReadingNumber(s.starting_location, TRUE, s.seen_exponent)
                /\ UNCHANGED tokens
                /\ EndOfBody
           ELSE IF c \in {"e", "E"} /\ s.seen_exponent
           THEN ReturnErr(MultipleExponentCharacters(s.starting_location))
           ELSE IF c \in {"e", "E"}
           THEN /\ state' = ReadingNumber(s.starting_location, s.seen_decimal_char, TRUE)
                /\ UNCHANGED tokens
                /\ EndOfBody
           ELSE IF is_numeric(c)
           THEN UNCHANGED <<tokens, state>> /\ EndOfBody
           ELSE IF c \in {",", "]", "}"}
           THEN LET r == end_current_token(tokens, state)
                IN  IF r.tag = "Err"
                    THEN ReturnErr(r.error)
                    ELSE /\ state' = r.state
                         /\ tokens' =
                              IF c = "]"
                              THEN Append(r.tokens, JsonToken_new(ArrayEnd,
                                     JsonTokenInfo_new(line_number, column_number, char_index)))
                              ELSE IF c = "}"
                              THEN Append(r.tokens, JsonToken_new(ObjectEnd,
                                     JsonTokenInfo_new(line_number, column_number, char_index)))
                              ELSE r.tokens
                         /\ EndOfBody
           ELSE ReturnErr(InvalidNumberCharacter(s.starting_location, c))

\* TokenizerState::ReadingNumber(s) => match current_char { ... }
StepReadingNumber ==
    /\ InLoop
    /\ state.tag = "ReadingNumber"
    /\ LET s == state
           c == current_char
       IN  IF c = "." /\ s.seen_decimal_char
           THEN ReturnErr(MultipleDecimalSeparators(s.starting_location))
           ELSE IF c = "." /\ s.seen_exponent
           THEN ReturnErr(DecimalAfterExponent(s.starting_location))
           ELSE IF c = "."
           THEN /\ state' = ReadingNumber(s.starting_location, TRUE, s.seen_exponent)
                /\ UNCHANGED tokens
                /\ EndOfBody
           ELSE IF c \in {"e", "E"} /\ s.seen_exponent
           THEN ReturnErr(MultipleExponentCharacters(s.starting_location))
           ELSE IF c \in {"e", "E"}
           THEN /\ state' = ReadingNumber(s.starting_location, s.seen_decimal_char, TRUE)
                /\ UNCHANGED tokens
                /\ EndOfBody
           ELSE IF is_numeric(c)
           THEN UNCHANGED <<tokens, state>> /\ EndOfBody
           ELSE IF c \in {",", "]", "}"}
           THEN LET r == end_current_token(tokens, state)
                IN  IF r.tag = "Err"
                    THEN ReturnErr(r.error)
                    ELSE /\ state' = r.state
                         /\ tokens' =
                              IF c = "]"
                              THEN Append(r.tokens, JsonToken_new(ArrayEnd,
                                     JsonTokenInfo_new(line_number, column_number, char_index)))
                              ELSE IF c = "}"
                              THEN Append(r.tokens, JsonToken_new(ObjectEnd,
                                     JsonTokenInfo_new(line_number, column_number, char_index)))
                              ELSE r.tokens
                         /\ EndOfBody
           ELSE ReturnErr(InvalidNumberCharacter(s.starting_location, c))

\* After the loop: end_current_token(&mut tokens, &mut state)?; Ok(tokens)
\* The state end_current_token returns is dropped here.
EndOfInput ==
    /\ result.tag = "None"
    /\ char_index = Len(json)
    /\ LET r == end_current_token(tokens, state)
       IN  IF r.tag = "Err"
           THEN ReturnErr(r.error)
           ELSE /\ tokens' = r.tokens
                /\ result' = Ok(r.tokens)
                /\ UNCHANGED <<json, char_index, state, line_number, column_number>>

Next ==
    \/ StepReady
    \/ StepEscapedChar
    \/ StepReadingString
    \/ StepReadingNumber
    \/ EndOfInput

Spec == Init /\ [][Next]_vars

(***************************************************************************)
(* Properties                                                              *)
(***************************************************************************)
Range(s) == {s[i] : i \in DOMAIN s}

\* The kinds of a token list, in order.
Kinds(toks) == [i \in 1..Len(toks) |-> toks[i].token_type.tag]

\* The characters that can stand inside a number in progress.
NumberChars == {c \in Alphabet : is_numeric(c)} \cup {".", "e", "E"}

\* While a number is in progress: the 1-based position in json of its first
\* character, found from the input alone as the start of the run of number
\* characters that ends at the last character read.
NumberRunStart ==
    CHOOSE i \in 1..char_index :
        /\ \A j \in i..char_index : json[j] \in NumberChars
        /\ i = 1 \/ json[i - 1] \notin NumberChars

\* The characters of the number in progress read so far.
NumberRun == SubSeq(json, NumberRunStart, char_index)

\* C1: a fault ends the scan at once.  Every step is taken while nothing was
\* returned (so nothing is processed, emitted or returned after an Error), and
\* the step that returns an Error leaves the position on the faulting
\* character, emits no token, returns the Error alone with no token list, and
\* an Error that carries a character carries the one at that position.
C1_FaultHaltsScan ==
    [][ /\ result.tag = "None"
        /\ result'.tag = "Err" =>
              /\ char_index' = char_index
              /\ tokens' = tokens
              /\ DOMAIN result' = {"tag", "error"}
              /\ "char" \in DOMAIN result'.error =>
                    /\ char_index < Len(json)
                    /\ result'.error.char = json[char_index + 1]
      ]_vars

\* An Error was returned with tokens already emitted and input left unread.
C1_Witness ==
    /\ result.tag = "Err"
    /\ tokens # <<>>
    /\ char_index + 1 < Len(json)

IsStructuralChar(c) == c \in {"{", "}", "[", "]", ":"}

KindOfChar(c) ==
    CASE c = "{" -> "ObjectStart"
      [] c = "}" -> "ObjectEnd"
      [] c = "[" -> "ArrayStart"
      [] c = "]" -> "ArrayEnd"
      [] c = ":" -> "Colon"

OnlyPunctuation == \A i \in 1..Len(json) : json[i] \in {"{", "}", "[", "]", ":", ",", " "}

\* C2: for an input made only of { } [ ] : , and space the call returns Ok,
\* and the kinds of the returned tokens are the { } [ ] : characters of the
\* input, in input order, each mapped to its kind (the empty input gives the
\* empty list).
C2_PunctuationOnly ==
    (result.tag # "None" /\ OnlyPunctuation) =>
        /\ result.tag = "Ok"
        /\ LET f == SelectSeq(json, IsStructuralChar)
           IN  Kinds(result.tokens) = [i \in 1..Len(f) |-> KindOfChar(f[i])]

\* A punctuation-only input with a comma, a space and two tokens returned Ok.
C2_Witness ==
    /\ result.tag = "Ok"
    /\ OnlyPunctuation
    /\ "," \in Range(json)
    /\ " " \in Range(json)
    /\ "}" \in Range(json)
    /\ Len(result.tokens) >= 2

\* C3: a step taken with a number in progress on ',', ']', '}' or at the end
\* of the input appends exactly one number token, at the location of the
\* number's first character; on ']' or '}' the ArrayEnd/ObjectEnd token at the
\* terminator's own location follows it and on ',' nothing follows; the state
\* becomes Ready.  At the end of the input the call returns Ok with that
\* list, and the state end_current_token hands back is Ready.
C3_NumberTerminated ==
    [][ (state.tag = "ReadingNumber" /\ result.tag = "None") =>
          LET start == state.starting_location
              here  == [line |-> line_number, column |-> column_number,
                        char |-> char_index]
              numberPushed(k) == Append(tokens,
                        [location |-> start, token_type |-> [tag |-> k]])
          IN  /\ start.char + 1 = NumberRunStart
              /\ IF char_index = Len(json)
                 THEN /\ \E k \in {"Int", "Float"} : tokens' = numberPushed(k)
                      /\ result' = [tag |-> "Ok", tokens |-> tokens']
                      /\ end_current_token(tokens, state).state = [tag |-> "Ready"]
                 ELSE IF json[char_index + 1] = ","
                 THEN /\ \E k \in {"Int", "Float"} : tokens' = numberPushed(k)
                      /\ state' = [tag |-> "Ready"]
                      /\ result' = result
                 ELSE IF json[char_index + 1] \in {"]", "}"}
                 THEN /\ \E k \in {"Int", "Float"} :
                            tokens' = Append(numberPushed(k),
                               [location |-> here,
                                token_type |-> [tag |-> IF json[char_index + 1] = "]"
                                                        THEN "ArrayEnd"
                                                        ELSE "ObjectEnd"]])
                      /\ state' = [tag |-> "Ready"]
                      /\ result' = result
                 ELSE TRUE
      ]_vars

\* A number that began after other tokens was ended by ']' and the call
\* returned Ok with the number token followed by ArrayEnd.
C3_Witness ==
    /\ result.tag = "Ok"
    /\ Len(result.tokens) >= 3
    /\ LET n == Len(result.tokens)
       IN  /\ result.tokens[n - 1].token_type.tag \in {"Int", "Float"}
           /\ result.tokens[n - 1].location.char > 0
           /\ result.tokens[n].token_type.tag = "ArrayEnd"
           /\ result.tokens[n].location.char > result.tokens[n - 1].location.char + 1

\* A number in progress is finalized by the next step.
NumberEnds ==
    /\ state.tag = "ReadingNumber"
    /\ result.tag = "None"
    /\ char_index = Len(json) \/ json[char_index + 1] \in {",", "]", "}"}

\* C4: the token appended when a number is finalized is Float if a '.' is
\* among the characters of that number in the input, and Int otherwise
\* (also when an exponent marker is among them).
C4_FloatIffDecimalPoint ==
    [][ NumberEnds =>
          /\ Len(tokens') > Len(tokens)
          /\ tokens'[Len(tokens) + 1].token_type.tag =
                IF "." \in Range(NumberRun) THEN "Float" ELSE "Int"
      ]_vars

\* A number with an exponent marker and no '.' was returned as the Int token.
C4_Witness ==
    /\ result.tag = "Ok"
    /\ Kinds(result.tokens) = <<"Int">>
    /\ Range(json) \cap {"e", "E"} # {}

\* C5: with a number in progress, a '.' after a '.' of that number returns
\* MultipleDecimalSeparators (whether or not an exponent marker was read), a
\* '.' after an exponent marker and no '.' returns DecimalAfterExponent, and
\* an e/E after an exponent marker returns MultipleExponentCharacters, each at
\* the location of the number's first character.
C5_SpecificNumberErrors ==
    [][ (state.tag = "ReadingNumber" /\ InLoop) =>
          LET c == json[char_index + 1]
              seen == Range(NumberRun)
              at(kind) == [tag |-> "Err",
                           error |-> [tag |-> kind,
                                      location |-> state.starting_location]]
          IN  /\ state.starting_location.char + 1 = NumberRunStart
              /\ (c = "." /\ "." \in seen) =>
                     result' = at("MultipleDecimalSeparators")
              /\ (c = "." /\ "." \notin seen /\ seen \cap {"e", "E"} # {}) =>
                     result' = at("DecimalAfterExponent")
              /\ (c \in {"e", "E"} /\ seen \cap {"e", "E"} # {}) =>
                     result' = at("MultipleExponentCharacters")
      ]_vars

\* A second '.' was read in a number that also has an exponent marker.
C5_Witness ==
    /\ result.tag = "Err"
    /\ result.error.tag = "MultipleDecimalSeparators"
    /\ Range(SubSeq(json, 1, char_index)) \cap {"e", "E"} # {}

\* C6: a '0' read in the Ready state returns NumbersCannotStartWithZero with
\* the location of that '0' (the current line and column and its index),
\* whatever follows it; no token is emitted for it.
C6_LeadingZero ==
    [][ (InLoop /\ state.tag = "Ready" /\ json[char_index + 1] = "0") =>
          /\ result' = [tag |-> "Err",
                        error |-> [tag |-> "NumbersCannotStartWithZero",
                                   location |-> [line |-> line_number,
                                                 column |-> column_number,
                                                 char |-> char_index]]]
          /\ tokens' = tokens
      ]_vars

\* A '0' that is neither first nor last in the input was refused.
C6_Witness ==
    /\ result.tag = "Err"
    /\ result.error.tag = "NumbersCannotStartWithZero"
    /\ result.error.location.char > 0
    /\ result.error.location.char + 1 < Len(json)

\* C7: once the call has returned with the whole input read, it returned
\* UnclosedString at the location of the opening quote if a string was in
\* progress (escape flag set or not), and Ok if the state was Ready or a
\* number was in progress.
C7_EndOfInput ==
    (result.tag # "None" /\ char_index = Len(json)) =>
        /\ state.tag = "ReadingString" =>
              /\ result = [tag |-> "Err",
                           error |-> [tag |-> "UnclosedString",
                                      location |-> state.starting_location]]
              /\ json[state.starting_location.char + 1] = "\""
        /\ state.tag \in {"Ready", "ReadingNumber"} => result.tag = "Ok"

\* The input ended inside a string that did not start the input, right after
\* a backslash.
C7_Witness ==
    /\ result.tag = "Err"
    /\ result.error.tag = "UnclosedString"
    /\ result.error.location.char > 0
    /\ state.escape_next

\* C8: when the closing quote of a string is read and no '"' and no '\' stands
\* between the opening quote and it, the String token appended carries
\* exactly the characters between the two quotes, at the opening quote's
\* location.
C8_PlainStringValue ==
    [][ (InLoop /\ state.tag = "ReadingString" /\ ~state.escape_next
            /\ json[char_index + 1] = "\"") =>
          LET open == state.starting_location.char + 1
              content == SubSeq(json, open + 1, char_index)
          IN  Range(content) \cap {"\"", "\\"} = {} =>
                 /\ json[open] = "\""
                 /\ tokens' = Append(tokens,
                       [location |-> state.starting_location,
                        token_type |-> [tag |-> "String", value |-> content]])
      ]_vars

\* A string of two different characters, one of them a digit, a structural
\* character or whitespace, was returned.
C8_Witness ==
    /\ result.tag = "Ok"
    /\ "\\" \notin Range(json)
    /\ \E i \in 1..Len(result.tokens) :
          /\ result.tokens[i].token_type.tag = "String"
          /\ Len(result.tokens[i].token_type.value) = 2
          /\ result.tokens[i].token_type.value[1] # result.tokens[i].token_type.value[2]
          /\ Range(result.tokens[i].token_type.value) \cap {"5", "{", " ", "\n"} # {}

\* C9: inside a string, an unescaped backslash only sets the escape flag
\* (nothing appended, no token); with the flag set the next character,
\* whatever it is, is appended as it is, the flag is cleared, the string stays
\* open, and no token is emitted.
C9_EscapeOneShot ==
    [][ (InLoop /\ state.tag = "ReadingString") =>
          LET c == json[char_index + 1]
          IN  /\ (~state.escape_next /\ c = "\\") =>
                    /\ state' = [state EXCEPT !.escape_next = TRUE]
                    /\ tokens' = tokens
              /\ state.escape_next =>
                    /\ state' = [state EXCEPT !.value = Append(@, c),
                                              !.escape_next = FALSE]
                    /\ tokens' = tokens
                    /\ result' = result
      ]_vars

\* The strings "\"" and "\\" of the input were returned as the one-character
\* values '"' and '\'.
C9_Witness ==
    /\ result.tag = "Ok"
    /\ Len(result.tokens) = 1
    /\ result.tokens[1].token_type \in {[tag |-> "String", value |-> <<"\"">>],
                                        [tag |-> "String", value |-> <<"\\">>]}

\* C10: the column counter is one more than the number of characters
\* processed, so every location held by a token, by the literal in progress
\* or by the returned Error has column = char + 1.
C10_ColumnIsCharIndexPlusOne ==
    /\ result.tag = "None" => column_number = char_index + 1
    /\ \A i \in 1..Len(tokens) :
          tokens[i].location.column = tokens[i].location.char + 1
    /\ state.tag # "Ready" =>
          state.starting_location.column = state.starting_location.char + 1
    /\ result.tag = "Err" =>
          result.error.location.column = result.error.location.char + 1

\* The token kinds and the error kinds the tokenizer is said to produce.
LexicalTokenKinds ==
    {"ObjectStart", "ObjectEnd", "ArrayStart", "ArrayEnd", "Colon",
     "String", "Int", "Float"}

LexicalErrorKinds ==
    {"MultipleDecimalSeparators", "DecimalAfterExponent",
     "InvalidNumberCharacter", "MultipleExponentCharacters",
     "UnknownJsonCharacter", "UnclosedString", "NumbersCannotStartWithZero"}

\* C11: no token, emitted or returned, is of kind Bool (every kind is one of
\* the eight lexical kinds), and a returned Error is never InvalidJson (it is
\* one of the seven lexical faults).
C11_NoBoolNoInvalidJson ==
    /\ \A i \in 1..Len(tokens) : tokens[i].token_type.tag \in LexicalTokenKinds
    /\ result.tag = "Ok" =>
          \A i \in 1..Len(result.tokens) :
              result.tokens[i].token_type.tag \in LexicalTokenKinds
    /\ result.tag = "Err" => result.error.tag \in LexicalErrorKinds

\* A call returned UnclosedString after it had emitted tokens of two kinds.
C11_Witness ==
    /\ result.tag = "Err"
    /\ result.error.tag = "UnclosedString"
    /\ Cardinality(Range(Kinds(tokens))) >= 2

\* C12: with a number in progress, a character other than '.', 'e', 'E', a
\* decimal digit, ',', ']' and '}' returns InvalidNumberCharacter with that
\* character and the number's start location, and no token is emitted.
C12_InvalidNumberCharacter ==
    [][ (InLoop /\ state.tag = "ReadingNumber"
            /\ json[char_index + 1] \notin
                  {".", "e", "E", ",", "]", "}"} \cup AsciiDigits) =>
          /\ result' = [tag |-> "Err",
                        error |-> [tag |-> "InvalidNumberCharacter",
                                   location |-> state.starting_location,
                                   char |-> json[char_index + 1]]]
          /\ state.starting_location.char + 1 = NumberRunStart
          /\ tokens' = tokens
      ]_vars

\* C13: in the Ready state the space is skipped (no token, no state change)
\* and a tab, newline or carriage return, like a letter, returns
\* UnknownJsonCharacter with that character and the current location, whose
\* char is the character's index.
C13_OnlySpaceIsWhitespace ==
    [][ (InLoop /\ state.tag = "Ready") =>
          LET c == json[char_index + 1]
          IN  /\ c = " " =>
                    /\ tokens' = tokens
                    /\ state' = state
                    /\ result' = result
                    /\ char_index' = char_index + 1
              /\ c \in {"\t", "\n", "\r", "a"} =>
                    /\ result' = [tag |-> "Err",
                                  error |-> [tag |-> "UnknownJsonCharacter",
                                             location |-> [line |-> line_number,
                                                           column |-> column_number,
                                                           char |-> char_index],
                                             char |-> c]]
                    /\ tokens' = tokens
      ]_vars

\* A newline read in Ready after a space was refused.
C13_Witness ==
    /\ result.tag = "Err"
    /\ result.error.tag = "UnknownJsonCharacter"
    /\ result.error.char = "\n"
    /\ result.error.location.char > 0
    /\ " " \in Range(SubSeq(json, 1, char_index))

\* C14: a step that leaves a number in progress keeps its start location
\* and never clears a seen flag; an ASCII digit read inside a number, '0'
\* included, changes neither the state nor the tokens and returns nothing; a
\* step that leaves a string in progress keeps its start location.
C14_LiteralFrame ==
    [][ /\ (state.tag = "ReadingNumber" /\ state'.tag = "ReadingNumber") =>
              /\ state'.starting_location = state.starting_location
              /\ state.seen_decimal_char => state'.seen_decimal_char
              /\ state.seen_exponent => state'.seen_exponent
        /\ (InLoop /\ state.tag = "ReadingNumber"
                /\ json[char_index + 1] \in AsciiDigits) =>
              /\ state' = state
              /\ tokens' = tokens
              /\ result' = result
        /\ (state.tag = "ReadingString" /\ state'.tag = "ReadingString") =>
              state'.starting_location = state.starting_location
      ]_vars

\* A number that does not start the input has both flags set and a '0' was
\* just read inside it.
C14_Witness ==
    /\ result.tag = "None"
    /\ state.tag = "ReadingNumber"
    /\ state.seen_decimal_char
    /\ state.seen_exponent
    /\ json[char_index] = "0"

\* C15: the line counter stays 1, and so does the line of every location held
\* by a token, by the literal in progress or by the returned Error.
C15_LineIsOne ==
    /\ line_number = 1
    /\ \A i \in 1..Len(tokens) : tokens[i].location.line = 1
    /\ state.tag # "Ready" => state.starting_location.line = 1
    /\ result.tag = "Err" => result.error.location.line = 1

\* A token was emitted after a string literal that contains a newline.
C15_Witness ==
    /\ Len(tokens) >= 2
    /\ tokens[1].token_type.tag = "String"
    /\ "\n" \in Range(tokens[1].token_type.value)

\* C16: the call cannot stop before it returns and cannot run for ever:
\* while nothing was returned a step is possible, and every step either moves
\* to the next character (by exactly one, never past the end, nothing
\* returned) or returns Ok or Err without moving; Ok is returned only with the
\* whole input read.  So at most Len(json) characters are read, each once,
\* in order, and one more step returns.
C16_Terminates ==
    /\ [](result.tag = "None" => ENABLED Next)
    /\ [][ /\ result.tag = "None"
           /\ \/ /\ result'.tag = "None"
                 /\ char_index' = char_index + 1
                 /\ char_index' <= Len(json)
              \/ /\ result'.tag \in {"Ok", "Err"}
                 /\ char_index' = char_index
                 /\ result'.tag = "Ok" => char_index = Len(json)
         ]_vars

\* A call over an input of full length returned after reading all of it.
C16_Witness ==
    /\ result.tag = "Ok"
    /\ char_index = Len(json)
    /\ Len(json) >= 4
    /\ "\\" \in Range(json)

\* C17: only decimal digits form numbers.  In Ready a number starts only on
\* 1-9, and a character that is neither an ASCII digit nor one of
\* { } [ ] : , " and space returns UnknownJsonCharacter; in a number only 0-9
\* is read without any effect, and a character that is neither an ASCII digit
\* nor one of . e E , ] } returns InvalidNumberCharacter.
C17_OnlyDecimalDigits ==
    [][ LET c == json[char_index + 1]
        IN  /\ (InLoop /\ state.tag = "Ready") =>
                  /\ state'.tag = "ReadingNumber" =>
                        c \in AsciiDigits \ {"0"}
                  /\ c \notin AsciiDigits
                              \cup {"{", "}", "[", "]", ":", ",", "\"", " "} =>
                        result' = [tag |-> "Err",
                                   error |-> [tag |-> "UnknownJsonCharacter",
                                              location |-> [line |-> line_number,
                                                            column |-> column_number,
                                                            char |-> char_index],
                                              char |-> c]]
            /\ (InLoop /\ state.tag = "ReadingNumber") =>
                  /\ (state' = state /\ tokens' = tokens /\ result' = result) =>
                        c \in AsciiDigits
                  /\ c \notin AsciiDigits \cup {".", "e", "E", ",", "]", "}"} =>
                        /\ result'.tag = "Err"
                        /\ result'.error.tag = "InvalidNumberCharacter"
      ]_vars

\* How the first n characters of the input leave the scan with respect to
\* strings: outside a string, inside one, or inside one right after an
\* unescaped backslash.  Computed from the input alone.
RECURSIVE StringMode(_)
StringMode(n) ==
    IF n = 0 THEN "out"
    ELSE LET m == StringMode(n - 1)
             c == json[n]
         IN  IF m = "out" THEN (IF c = "\"" THEN "str" ELSE "out")
             ELSE IF m = "esc" THEN "str"
             ELSE IF c = "\"" THEN "out"
             ELSE IF c = "\\" THEN "esc"
             ELSE "str"

\* The number of escaped characters among the first n characters.
EscapedBefore(n) == Cardinality({i \in 1..n : StringMode(i - 1) = "esc"})

\* location.column = location.char + 1 - k, k the escaped characters before it.
ColumnLagsByEscapes(location) ==
    location.column + EscapedBefore(location.char) = location.char + 1

FirstCharsOfKind(kind) ==
    CASE kind = "ObjectStart" -> {"{"}
      [] kind = "ObjectEnd"   -> {"}"}
      [] kind = "ArrayStart"  -> {"["}
      [] kind = "ArrayEnd"    -> {"]"}
      [] kind = "Colon"       -> {":"}
      [] kind = "String"      -> {"\""}
      [] kind \in {"Int", "Float"} -> {c \in Alphabet : is_numeric(c)} \ {"0"}
      [] OTHER -> {}

\* C19: every step keeps the tokens it had and appends at most two; in the
\* list the char indices are strictly increasing, and each token's char index
\* is that of a character its kind begins with.
C19_TokensAppendInOrder ==
    [][ /\ Len(tokens') >= Len(tokens)
        /\ Len(tokens') <= Len(tokens) + 2
        /\ SubSeq(tokens', 1, Len(tokens)) = tokens
        /\ \A i \in 1..Len(tokens') :
              /\ json[tokens'[i].location.char + 1]
                    \in FirstCharsOfKind(tokens'[i].token_type.tag)
              /\ i > 1 => tokens'[i - 1].location.char < tokens'[i].location.char
      ]_vars

\* A step on '}' appended two tokens, the number and ObjectEnd, after a
\* token already in the list.
C19_Witness ==
    /\ Len(tokens) = 3
    /\ json[char_index] = "}"
    /\ tokens[2].token_type.tag \in {"Int", "Float"}
    /\ tokens[3].token_type.tag = "ObjectEnd"
    /\ tokens[2].location.char < tokens[3].location.char

\* C20: a number whose last character is '.', 'e' or 'E' when its terminator
\* or the end of the input comes is accepted: no Error is returned and the
\* number token is appended, Float if a '.' is among its characters and Int
\* otherwise.
C20_NoDigitRequired ==
    [][ (NumberEnds /\ json[char_index] \in {".", "e", "E"}) =>
          /\ result'.tag # "Err"
          /\ char_index = Len(json) => result'.tag = "Ok"
          /\ Len(tokens') > Len(tokens)
          /\ state.starting_location.char + 1 = NumberRunStart
          /\ tokens'[Len(tokens) + 1] =
                [location |-> state.starting_location,
                 token_type |-> [tag |-> IF "." \in Range(NumberRun)
                                         THEN "Float" ELSE "Int"]]
      ]_vars

\* The input ended right after the '.' of a number and Float was returned.
C20_Witness ==
    /\ result.tag = "Ok"
    /\ Len(json) >= 2
    /\ json[Len(json)] = "."
    /\ Len(result.tokens) >= 1
    /\ result.tokens[Len(result.tokens)].token_type.tag = "Float"

====
